---- MODULE Spec2Model ----
(***************************************************************************)
(* A model of the product-quality analysis scripts                         *)
(*   src/defect_graph.py, src/grouped_defect_pareto_chart.py and           *)
(*   src/quality_test.py.                                                  *)
(*                                                                         *)
(* Python values.  A cell of a sheet or a field of a record is None, a     *)
(* str or an int.  A str is a sequence of characters; a character is an    *)
(* atom written as a TLA+ string ("a", "#", " ", "0", ...).  The Chinese   *)
(* characters and dictionary keys of the source are written in pinyin:     *)
(*   "片号" = <<"pian","hao">>    "种类" = <<"zhong","lei">>               *)
(*   "好" = <<"hao">>  "坏" = <<"huai">>  "还行" = <<"hai","xing">>        *)
(*   "一般" = <<"yi","ban">>                                               *)
(*   keys: 种类 zhonglei, 片号 pianhao, 这个缺陷 zhege_quexian,            *)
(*         哪个缺陷 nage_quexian, 就是这个缺陷 jiushi_zhege_quexian,       *)
(*         工序1品质 gongxu1_pinzhi, 工序2品质 gongxu2_pinzhi,             *)
(*         最终品质 zuizhong_pinzhi                                        *)
(***************************************************************************)
EXTENDS Integers, Sequences, FiniteSets, TLC

VARIABLES
    pc,             \* position of the running script
    script,         \* which script runs: "defect_graph", "pareto", "quality"
    sheet,          \* the rows of the active worksheet (iter_rows, values_only)
    header_keyword, \* find_header_row's keyword argument
    header_row,     \* what find_header_row returned
    raised,         \* the exception that ended the call, or "none"
    code,           \* is_valid_code's argument
    valid,          \* what is_valid_code returned
    data,           \* the records a loader returned / the quality records
    passes,         \* how many times preprocess_data has run over data
    product_codes,  \* group_product_codes' argument
    groups,         \* what group_product_codes returned
    graph_data,     \* analyze_defect_data's argument
    defect_stats,   \* what analyze_defect_data returned
    emitted,        \* the table rows a chart function wrote, per process column
    call,           \* the arguments of the last quality_ratio call
    ratio,          \* what quality_ratio returned
    process_configs, \* analyze_quality_data's process_configs argument
    results,        \* analyze_quality_data's results dict
    grouped_data    \* __main__'s grouped_data dict of the defect scripts

vars == <<pc, script, sheet, header_keyword, header_row, raised, code, valid,
          data, passes, product_codes, groups, graph_data, defect_stats,
          emitted, call, ratio, process_configs, results, grouped_data>>

-----------------------------------------------------------------------------
(* Python values *)

None == [t |-> "None", s |-> <<>>, n |-> 0]
S(chars) == [t |-> "str", s |-> chars, n |-> 0]
N(k) == [t |-> "int", s |-> <<>>, n |-> k]

Digits == <<"0", "1", "2", "3", "4", "5", "6", "7", "8", "9">>

RECURSIVE IntStr(_)
\* str(k) of a non-negative int: its decimal digits
IntStr(k) ==
    IF k < 10 THEN <<Digits[k + 1]>>
    ELSE IntStr(k \div 10) \o <<Digits[(k % 10) + 1]>>

\* str(v)
Str(v) ==
    CASE v.t = "str" -> v.s
      [] v.t = "int" -> IntStr(v.n)
      [] OTHER -> <<"N", "o", "n", "e">>

\* bool(v): None, "" and 0 are falsy
Truthy(v) ==
    CASE v.t = "str" -> Len(v.s) > 0
      [] v.t = "int" -> v.n # 0
      [] OTHER -> FALSE

\* sub in s
Contains(sub, s) ==
    \E i \in 0..(Len(s) - Len(sub)) : SubSeq(s, i + 1, i + Len(sub)) = sub

\* s.startswith(c) for a single character c
StartsWith(s, c) == Len(s) >= 1 /\ s[1] = c

RECURSIVE LStrip(_)
LStrip(s) == IF Len(s) > 0 /\ s[1] = " " THEN LStrip(Tail(s)) ELSE s

RECURSIVE RStrip(_)
RStrip(s) ==
    IF Len(s) > 0 /\ s[Len(s)] = " " THEN RStrip(SubSeq(s, 1, Len(s) - 1)) ELSE s

\* s.strip()
Strip(s) == RStrip(LStrip(s))

\* a call's outcome: a returned value or a raised exception
Return(v) == [ret |-> v, exc |-> "none"]
Raise(e) == [ret |-> 0, exc |-> e]

PIANHAO == <<"pian", "hao">>
ZHONGLEI == <<"zhong", "lei">>
HAO == S(<<"hao">>)
HUAI == S(<<"huai">>)
HAIXING == S(<<"hai", "xing">>)
YIBAN == S(<<"yi", "ban">>)

Scripts == {"defect_graph", "pareto", "quality"}

-----------------------------------------------------------------------------
(* find_header_row, one per script *)

RECURSIVE scan_defect_graph(_, _, _)
\* defect_graph.py: row[0] is read without a length check
scan_defect_graph(rows, kw, i) ==
    IF i > Len(rows) THEN Return(1)
    ELSE IF Len(rows[i]) = 0 THEN Raise("IndexError")
    ELSE IF rows[i][1] # None /\ Contains(kw, Str(rows[i][1])) THEN Return(i)
    ELSE scan_defect_graph(rows, kw, i + 1)

RECURSIVE scan_pareto_col0(_, _, _)
\* scan_pareto changed to look at the first cell instead of the third
scan_pareto_col0(rows, kw, i) ==
    IF i > Len(rows) THEN Return(1)
    ELSE IF Len(rows[i]) > 0 /\ rows[i][1] # None
            /\ Contains(kw, Str(rows[i][1])) THEN Return(i)
    ELSE scan_pareto_col0(rows, kw, i + 1)

RECURSIVE scan_pareto(_, _, _)
\* grouped_defect_pareto_chart.py: len(row) > 2 and row[2] is not None
scan_pareto(rows, kw, i) ==
    IF i > Len(rows) THEN Return(1)
    ELSE IF Len(rows[i]) > 2 /\ rows[i][3] # None
            /\ Contains(kw, Str(rows[i][3])) THEN Return(i)
    ELSE scan_pareto(rows, kw, i + 1)

RECURSIVE scan_quality(_, _, _)
\* quality_test.py: every cell of the row is tried
scan_quality(rows, kw, i) ==
    IF i > Len(rows) THEN Return(1)
    ELSE IF \E j \in 1..Len(rows[i]) :
                Truthy(rows[i][j]) /\ Contains(kw, Str(rows[i][j])) THEN Return(i)
    ELSE scan_quality(rows, kw, i + 1)

find_header_row(which, rows, kw) ==
    CASE which = "defect_graph" -> scan_defect_graph(rows, kw, 1)
      [] which = "pareto" -> scan_pareto(rows, kw, 1)
      [] OTHER -> scan_quality(rows, kw, 1)

\* the keyword each script's find_header_row defaults to
DefaultKeyword(which) == IF which = "quality" THEN ZHONGLEI ELSE PIANHAO

-----------------------------------------------------------------------------
(* is_valid_code and the loaders *)

\* is_valid_code without the test for None
is_valid_code_no_none(c) == ~StartsWith(Str(c), "#")

is_valid_code(c) ==
    IF c = None THEN FALSE
    ELSE IF StartsWith(Str(c), "#") THEN FALSE
    ELSE TRUE

\* the dict a defect script builds from a row (columns 0..4)
defect_record(row, slice_code) ==
    [zhonglei |-> row[2], pianhao |-> slice_code, zhege_quexian |-> row[3],
     nage_quexian |-> row[4], jiushi_zhege_quexian |-> row[5]]

\* the dict quality_test.py builds from a row (columns 0, 2, 5, 7)
quality_record(row) ==
    [zhonglei |-> row[1], gongxu1_pinzhi |-> row[3], gongxu2_pinzhi |-> row[6],
     zuizhong_pinzhi |-> row[8]]

RECURSIVE load_rows_defect_graph(_, _, _)
\* the row loop of defect_graph.py's load_graph_data, from row i on
load_rows_defect_graph(rows, i, acc) ==
    IF i > Len(rows) THEN Return(acc)
    ELSE IF Len(rows[i]) < 1 THEN Raise("IndexError")
    ELSE LET slice_code == IF rows[i][1] # None THEN S(Str(rows[i][1])) ELSE None
         IN  IF ~is_valid_code(slice_code)
             THEN load_rows_defect_graph(rows, i + 1, acc)
             ELSE IF Len(rows[i]) < 5 THEN Raise("IndexError")
             ELSE load_rows_defect_graph(rows, i + 1,
                      Append(acc, defect_record(rows[i], slice_code)))

RECURSIVE load_rows_pareto(_, _, _)
\* the row loop of grouped_defect_pareto_chart.py's load_graph_data
load_rows_pareto(rows, i, acc) ==
    IF i > Len(rows) THEN Return(acc)
    ELSE IF Len(rows[i]) < 1 THEN Raise("IndexError")
    ELSE IF rows[i][1] = None THEN load_rows_pareto(rows, i + 1, acc)
    ELSE LET slice_code == IF rows[i][1] # None THEN S(Str(rows[i][1])) ELSE None
         IN  IF ~is_valid_code(slice_code)
             THEN load_rows_pareto(rows, i + 1, acc)
             ELSE IF Len(rows[i]) < 5 THEN Raise("IndexError")
             ELSE load_rows_pareto(rows, i + 1,
                      Append(acc, defect_record(rows[i], slice_code)))

RECURSIVE load_rows_quality(_, _, _)
\* the row loop of quality_test.py's load_data: only None keys are skipped
load_rows_quality(rows, i, acc) ==
    IF i > Len(rows) THEN Return(acc)
    ELSE IF Len(rows[i]) < 1 THEN Raise("IndexError")
    ELSE IF rows[i][1] = None THEN load_rows_quality(rows, i + 1, acc)
    ELSE IF Len(rows[i]) < 8 THEN Raise("IndexError")
    ELSE load_rows_quality(rows, i + 1, Append(acc, quality_record(rows[i])))

\* load_graph_data / load_data: find the header row, then read the rows
\* below it (iter_rows(min_row=header_row + 1))
load(which, rows) ==
    LET h == find_header_row(which, rows, DefaultKeyword(which))
    IN  IF h.exc # "none" THEN [ret |-> <<>>, exc |-> h.exc, header |-> 0]
        ELSE LET r == CASE which = "defect_graph" ->
                               load_rows_defect_graph(rows, h.ret + 1, <<>>)
                        [] which = "pareto" ->
                               load_rows_pareto(rows, h.ret + 1, <<>>)
                        [] OTHER -> load_rows_quality(rows, h.ret + 1, <<>>)
             IN  [ret |-> IF r.exc = "none" THEN r.ret ELSE <<>>,
                  exc |-> r.exc, header |-> h.ret]

-----------------------------------------------------------------------------
(* group_product_codes *)

\* the least / greatest element of a non-empty set of numbers
Min(set) == CHOOSE m \in set : \A k \in set : m <= k
Max(set) == CHOOSE m \in set : \A k \in set : m >= k

\* the index of key among the entries of an insertion-ordered dict, 0 if absent
IndexOfKey(dict, key) ==
    IF \E i \in 1..Len(dict) : dict[i].key = key
    THEN CHOOSE i \in 1..Len(dict) : dict[i].key = key
    ELSE 0

\* s[:k]: the first k characters, all of s when it is shorter
Prefix(s, k) == SubSeq(s, 1, IF k < Len(s) THEN k ELSE Len(s))

RECURSIVE group_loop(_, _, _, _)
\* the loop over the codes, in the order the set is iterated
group_loop(order, i, min_length, acc) ==
    IF i > Len(order) THEN acc
    ELSE LET base_code == S(Prefix(order[i].s, min_length))
             at == IndexOfKey(acc, base_code)
             made == IF at = 0
                     THEN Append(acc, [key |-> base_code, val |-> <<>>])
                     ELSE acc
             k == IF at = 0 THEN Len(made) ELSE at
         IN  group_loop(order, i + 1, min_length,
                 [made EXCEPT ![k].val = Append(@, order[i])])

\* group_product_codes with the longest code's length as the base length
group_product_codes_max(order) ==
    IF \E i \in 1..Len(order) : order[i].t # "str" THEN Raise("TypeError")
    ELSE LET min_length ==
                 IF Len(order) > 0
                 THEN Max({Len(order[i].s) : i \in 1..Len(order)}) ELSE 0
         IN  Return(group_loop(order, 1, min_length, <<>>))

\* group_product_codes taking min() of the lengths whatever the set holds:
\* min() of an empty sequence raises ValueError
group_product_codes_no_guard(order) ==
    IF \E i \in 1..Len(order) : order[i].t # "str" THEN Raise("TypeError")
    ELSE IF Len(order) = 0 THEN Raise("ValueError")
    ELSE Return(group_loop(order, 1,
                    Min({Len(order[i].s) : i \in 1..Len(order)}), <<>>))

\* group_product_codes(product_codes), order being the order in which the
\* set product_codes is iterated; len(code) of a code that is no str raises.
\* The returned dict is the sequence of its (key, val) entries in insertion
\* order.
group_product_codes(order) ==
    IF \E i \in 1..Len(order) : order[i].t # "str" THEN Raise("TypeError")
    ELSE LET min_length ==
                 IF Len(order) > 0
                 THEN Min({Len(order[i].s) : i \in 1..Len(order)}) ELSE 0
         IN  Return(group_loop(order, 1, min_length, <<>>))

-----------------------------------------------------------------------------
(* analyze_defect_data and the table a chart function writes *)

process_columns == <<"zhege_quexian", "nage_quexian", "jiushi_zhege_quexian">>

RECURSIVE collect_defects_no_strip(_, _, _, _)
\* collect_defects appending str(defect) as it is
collect_defects_no_strip(items, column, i, defects) ==
    IF i > Len(items) THEN defects
    ELSE LET defect == items[i][column]
         IN  collect_defects_no_strip(items, column, i + 1,
                 IF defect # None /\ Strip(Str(defect)) # <<>>
                 THEN Append(defects, S(Str(defect)))
                 ELSE defects)

RECURSIVE collect_defects(_, _, _, _)
\* the inner loop: the stripped str() of every value of the column that is
\* not None and not blank after stripping, in record order
collect_defects(items, column, i, defects) ==
    IF i > Len(items) THEN defects
    ELSE LET defect == items[i][column]
         IN  collect_defects(items, column, i + 1,
                 IF defect # None /\ Strip(Str(defect)) # <<>>
                 THEN Append(defects, S(Strip(Str(defect))))
                 ELSE defects)

RECURSIVE Counter(_, _, _)
\* Counter(defects): a dict in insertion order, label -> count
Counter(defects, i, acc) ==
    IF i > Len(defects) THEN acc
    ELSE LET at == IndexOfKey(acc, defects[i])
         IN  Counter(defects, i + 1,
                 IF at = 0 THEN Append(acc, [key |-> defects[i], val |-> 1])
                 ELSE [acc EXCEPT ![at].val = @ + 1])

RECURSIVE analyze_columns(_, _, _)
analyze_columns(items, c, defect_stats_acc) ==
    IF c > Len(process_columns) THEN defect_stats_acc
    ELSE analyze_columns(items, c + 1,
             Append(defect_stats_acc,
                 [key |-> process_columns[c],
                  val |-> Counter(collect_defects(items, process_columns[c], 1, <<>>),
                                  1, <<>>)]))

\* analyze_defect_data(graph_data): column name -> Counter, in column order
analyze_defect_data(items) == analyze_columns(items, 1, <<>>)

RECURSIVE SumVals(_)
\* sum(counter.values())
SumVals(counter) ==
    IF counter = <<>> THEN 0 ELSE Head(counter).val + SumVals(Tail(counter))

\* the place a stable descending sort puts x among the sorted items: behind
\* every item whose count is at least x's
InsertStable(sorted, x) ==
    LET n == Cardinality({i \in 1..Len(sorted) : sorted[i].val >= x.val})
    IN  SubSeq(sorted, 1, n) \o <<x>> \o SubSeq(sorted, n + 1, Len(sorted))

\* the place an unstable descending sort may put x: ahead of the items of
\* equal count
InsertUnstable(sorted, x) ==
    LET n == Cardinality({i \in 1..Len(sorted) : sorted[i].val > x.val})
    IN  SubSeq(sorted, 1, n) \o <<x>> \o SubSeq(sorted, n + 1, Len(sorted))

RECURSIVE SortUnstable(_, _, _)
SortUnstable(counter, i, sorted) ==
    IF i > Len(counter) THEN sorted
    ELSE SortUnstable(counter, i + 1, InsertUnstable(sorted, counter[i]))

RECURSIVE SortStable(_, _, _)
SortStable(counter, i, sorted) ==
    IF i > Len(counter) THEN sorted
    ELSE SortStable(counter, i + 1, InsertStable(sorted, counter[i]))

\* most_common with the items of equal count in reverse insertion order
most_common_unstable(counter) == SortUnstable(counter, 1, <<>>)

\* counter.most_common(): sorted(items, key=count, reverse=True), a stable
\* sort, so items of equal count keep their insertion order
most_common(counter) == SortStable(counter, 1, <<>>)

\* the table rows written for one process column: label, count, and the
\* fraction count / process_total (0 when process_total is 0)
table_rows(counter) ==
    LET process_total == SumVals(counter)
        sorted_defects == most_common(counter)
    IN  [r \in 1..Len(sorted_defects) |->
            [defect_type |-> sorted_defects[r].key,
             count |-> sorted_defects[r].val,
             percentage |-> IF process_total > 0
                            THEN <<sorted_defects[r].val, process_total>>
                            ELSE <<0, 1>>]]

\* the data rows create_pie_charts_for_group / create_pareto_chart_for_group
\* write, per process column in the order of defect_stats
create_chart_rows(stats) ==
    [c \in 1..Len(stats) |-> [key |-> stats[c].key, val |-> table_rows(stats[c].val)]]

-----------------------------------------------------------------------------
(* preprocess_data and quality_ratio *)

\* item.get(key): None when the dict has no such key
Get(item, key) == IF key \in DOMAIN item THEN item[key] ELSE None

\* the null-fill of one record with the test on stage 2 inverted
fill_item_swapped(item) ==
    LET final_quality == Get(item, "zuizhong_pinzhi")
    IN  IF final_quality = None \/ final_quality = S(<<>>)
        THEN IF Get(item, "gongxu2_pinzhi") # HAO
             THEN [item EXCEPT !.zuizhong_pinzhi = HAO]
             ELSE [item EXCEPT !.zuizhong_pinzhi = HUAI]
        ELSE item

\* the null-fill of one record without the test for a missing value: the
\* terminal quality is always derived from stage 2
fill_item_always(item) ==
    IF Get(item, "gongxu2_pinzhi") = HAO
    THEN [item EXCEPT !.zuizhong_pinzhi = HAO]
    ELSE [item EXCEPT !.zuizhong_pinzhi = HUAI]

\* the body of preprocess_data's loop for one record
fill_item(item) ==
    LET final_quality == Get(item, "zuizhong_pinzhi")
    IN  IF final_quality = None \/ final_quality = S(<<>>)
        THEN IF Get(item, "gongxu2_pinzhi") = HAO
             THEN [item EXCEPT !.zuizhong_pinzhi = HAO]
             ELSE [item EXCEPT !.zuizhong_pinzhi = HUAI]
        ELSE item

\* preprocess_data that fills nothing
preprocess_data_noop(items) == items

\* preprocess_data(data)
preprocess_data(items) == [i \in 1..Len(items) |-> fill_item(items[i])]

RECURSIVE Gcd(_, _)
Gcd(a, b) == IF b = 0 THEN a ELSE Gcd(b, a % b)

\* the number count / total, as a fraction in lowest terms
Quotient(count, total) ==
    LET g == Gcd(count, total) IN <<count \div g, total \div g>>

\* the number 0
Zero == <<0, 1>>

\* value in values_to_count, for a list
InList(value, list) == \E k \in 1..Len(list) : list[k] = value

RECURSIVE ratio_loop(_, _, _, _, _, _, _)
\* the loop of quality_ratio: <<count, total>> after the records from i on
ratio_loop(items, category, process_column, values_to_count, i, count, total) ==
    IF i > Len(items) THEN <<count, total>>
    ELSE IF Get(items[i], "zhonglei") # category
    THEN ratio_loop(items, category, process_column, values_to_count, i + 1,
             count, total)
    ELSE LET value == Get(items[i], process_column)
         IN  IF value = None \/ value = S(<<>>)
             THEN ratio_loop(items, category, process_column, values_to_count,
                      i + 1, count, total)
             ELSE ratio_loop(items, category, process_column, values_to_count,
                      i + 1,
                      IF InList(value, values_to_count) THEN count + 1 ELSE count,
                      total + 1)

RECURSIVE ratio_loop_count_all(_, _, _, _, _, _, _)
\* ratio_loop with the records of no value counted in total
ratio_loop_count_all(items, category, process_column, values_to_count, i,
                     count, total) ==
    IF i > Len(items) THEN <<count, total>>
    ELSE IF Get(items[i], "zhonglei") # category
    THEN ratio_loop_count_all(items, category, process_column, values_to_count,
             i + 1, count, total)
    ELSE LET value == Get(items[i], process_column)
         IN  ratio_loop_count_all(items, category, process_column,
                 values_to_count, i + 1,
                 IF InList(value, values_to_count) THEN count + 1 ELSE count,
                 total + 1)

\* quality_ratio that skips nothing
quality_ratio_count_all(items, category, process_column, values_to_count) ==
    LET ct == ratio_loop_count_all(items, category, process_column,
                  values_to_count, 1, 0, 0)
    IN  IF ct[2] > 0 THEN Return(Quotient(ct[1], ct[2])) ELSE Return(Zero)

\* quality_ratio that divides whatever total is
quality_ratio_unguarded(items, category, process_column, values_to_count) ==
    LET ct == ratio_loop(items, category, process_column, values_to_count, 1, 0, 0)
    IN  IF ct[2] # 0 THEN Return(Quotient(ct[1], ct[2]))
        ELSE Raise("ZeroDivisionError")

\* quality_ratio(data, category, process_column, values_to_count)
quality_ratio(items, category, process_column, values_to_count) ==
    LET ct == ratio_loop(items, category, process_column, values_to_count, 1, 0, 0)
    IN  IF ct[2] > 0 THEN Return(Quotient(ct[1], ct[2])) ELSE Return(Zero)

-----------------------------------------------------------------------------
(* analyze_quality_data and the __main__ of the defect scripts *)

\* dict[key] = val on a dict in insertion order
DictSet(dict, key, val) ==
    LET at == IndexOfKey(dict, key)
    IN  IF at = 0 THEN Append(dict, [key |-> key, val |-> val])
        ELSE [dict EXCEPT ![at].val = val]

\* the keys of a dict
Keys(dict) == {dict[i].key : i \in 1..Len(dict)}

\* the set categories of analyze_quality_data: every 种类 that is not None
categories_of(items) ==
    {Get(items[i], "zhonglei") : i \in 1..Len(items)} \ {None}

RECURSIVE category_results(_, _, _, _, _)
\* the inner loop of analyze_quality_data: config name -> ratio
category_results(items, category, configs, c, acc) ==
    IF c > Len(configs) THEN acc
    ELSE category_results(items, category, configs, c + 1,
             DictSet(acc, configs[c].name,
                 quality_ratio(items, category, configs[c].column,
                               configs[c].values).ret))

\* the process_configs of quality_test.py's __main__
main_process_configs ==
    <<[name |-> "gongxu1_feihuai_zhanbi", column |-> "gongxu1_pinzhi",
       values |-> <<HAO, HAIXING>>],
      [name |-> "gongxu2_feihuai_zhanbi", column |-> "gongxu2_pinzhi",
       values |-> <<HAO, YIBAN>>],
      [name |-> "zuizhong_pinzhi_hao_zhanbi", column |-> "zuizhong_pinzhi",
       values |-> <<HAO, YIBAN>>]>>

\* all_product_codes = set(item["种类"] for item in graph_data)
all_product_codes(items) == {items[i].zhonglei : i \in 1..Len(items)}

\* the records of one group, keeping only those whose category is the
\* group's name
group_items_by_name(items, group_name, codes) ==
    SelectSeq(items, LAMBDA item : item.zhonglei = group_name)

\* [item for item in graph_data if item["种类"] in product_codes]
group_items(items, group_name, codes) ==
    SelectSeq(items, LAMBDA item : InList(item.zhonglei, codes))

RECURSIVE build_grouped_data(_, _, _, _)
\* the loop that fills grouped_data from groups.items()
build_grouped_data(group_dict, items, g, acc) ==
    IF g > Len(group_dict) THEN acc
    ELSE build_grouped_data(group_dict, items, g + 1,
             DictSet(acc, group_dict[g].key,
                 group_items(items, group_dict[g].key, group_dict[g].val)))

-----------------------------------------------------------------------------
(* Bounded inputs *)

MaxHeaderRows == 2

RECURSIVE SeqsUpTo(_, _)
\* the sequences over set of length at most k
SeqsUpTo(set, k) ==
    IF k = 0 THEN {<<>>}
    ELSE LET shorter == SeqsUpTo(set, k - 1)
         IN  shorter \cup {Append(q, x) : q \in shorter, x \in set}

SeqsOfLen(set, k) == {q \in SeqsUpTo(set, k) : Len(q) = k}

\* cells of the sheets the header scan is tried on: an empty cell, a text
\* holding the script's default keyword after another character, and the
\* number 0
HeaderCells(which) == {None, S(<<"a">> \o DefaultKeyword(which)), N(0)}

\* rows of no cell, of one cell and of three cells (reaching column index 2)
HeaderRows(which) ==
    SeqsOfLen(HeaderCells(which), 0) \cup SeqsOfLen(HeaderCells(which), 1)
        \cup SeqsOfLen(HeaderCells(which), 3)

HeaderKeywords(which) == {DefaultKeyword(which), <<"0">>}

-----------------------------------------------------------------------------
(* The header scan on its own *)

\* the variables a specification does not use stay at these values
NoSheet == script = "none" /\ sheet = <<>> /\ header_keyword = <<>> /\ header_row = 0
NoCode == code = None /\ valid = FALSE
NoQuality ==
    /\ passes = 0
    /\ call = <<>>
    /\ ratio = <<>>
    /\ process_configs = <<>>
    /\ results = <<>>
NoDefect ==
    /\ product_codes = {}
    /\ groups = <<>>
    /\ graph_data = <<>>
    /\ defect_stats = <<>>
    /\ emitted = <<>>
    /\ grouped_data = <<>>

sheetVars == <<script, sheet, header_keyword, header_row>>
codeVars == <<code, valid>>
qualityVars == <<passes, call, ratio, process_configs, results>>
defectVars ==
    <<product_codes, groups, graph_data, defect_stats, emitted, grouped_data>>

InitHeader ==
    /\ pc = "start"
    /\ script \in Scripts
    /\ sheet \in SeqsUpTo(HeaderRows(script), MaxHeaderRows)
    /\ header_keyword \in HeaderKeywords(script)
    /\ header_row = 0
    /\ raised = "none"
    /\ data = <<>>
    /\ NoCode /\ NoQuality /\ NoDefect

FindHeaderRow ==
    /\ pc = "start"
    /\ LET r == find_header_row(script, sheet, header_keyword)
       IN  /\ header_row' = r.ret
           /\ raised' = r.exc
    /\ pc' = "found"
    /\ UNCHANGED <<script, sheet, header_keyword, data, codeVars, qualityVars,
                   defectVars>>

NextHeader == FindHeaderRow

SpecHeader == InitHeader /\ [][NextHeader]_vars

\* the cell at 0-based column col of row exists, is not None, and its
\* stringified value contains kw
MatchAt(row, col, kw) ==
    Len(row) > col /\ row[col + 1] # None /\ Contains(kw, Str(row[col + 1]))

\* some truthy cell of row has a stringified value that contains kw
MatchAnyCell(row, kw) ==
    \E j \in 1..Len(row) : Truthy(row[j]) /\ Contains(kw, Str(row[j]))

\* the 0-based column a script's header signature is looked for in: the item
\* code column of defect_graph.py, the third column of the Pareto script, the
\* category column of quality_test.py
InspectedColumn(which) == IF which = "pareto" THEN 2 ELSE 0

\* the 1-based index of the topmost row of rows in hits, 1 when there is none
FirstOr1(rows, hits) ==
    IF hits = {} THEN 1 ELSE CHOOSE i \in hits : \A k \in hits : i <= k

ColumnHits(rows, col, kw) == {i \in 1..Len(rows) : MatchAt(rows[i], col, kw)}
AnyCellHits(rows, kw) == {i \in 1..Len(rows) : MatchAnyCell(rows[i], kw)}

\* C6 as stated, for the keyword each script passes: in the Pareto and the
\* quality script, find_header_row on a non-empty sheet returns the index of
\* the topmost row whose inspected column contains the keyword, 1 when there
\* is none; a match in another column does not count.
Cex_C6 ==
    (/\ pc = "found"
     /\ script \in {"pareto", "quality"}
     /\ Len(sheet) > 0
     /\ header_keyword = DefaultKeyword(script))
        => /\ raised = "none"
           /\ header_row = FirstOr1(sheet,
                  ColumnHits(sheet, InspectedColumn(script), header_keyword))

\* C6 (amended): the Pareto script's find_header_row returns the index of the
\* topmost row whose column 2 is present, not None and contains the keyword
\* when stringified; the quality script's returns the index of the topmost
\* row that has a truthy cell, in any column, whose stringified value
\* contains the keyword; both return 1 when no row matches.
Thm_C6 ==
    (pc = "found" /\ script \in {"pareto", "quality"} /\ Len(sheet) > 0)
        => /\ raised = "none"
           /\ script = "pareto" =>
                  header_row = FirstOr1(sheet, ColumnHits(sheet, 2, header_keyword))
           /\ script = "quality" =>
                  header_row = FirstOr1(sheet, AnyCellHits(sheet, header_keyword))

\* the first row holds the keyword in column 0 only, the second in column 2:
\* the second row is returned
Wit_C6 ==
    /\ pc = "found"
    /\ script = "pareto"
    /\ Len(sheet) = 2
    /\ ~MatchAt(sheet[1], 2, header_keyword)
    /\ MatchAt(sheet[1], 0, header_keyword)
    /\ MatchAt(sheet[2], 2, header_keyword)
    /\ header_row = 2

\* C7: find_header_row never raises; a row that does not reach the inspected
\* column, a zero-length row included, is skipped.
Cex_C7 == pc = "found" => raised = "none"

-----------------------------------------------------------------------------
(* is_valid_code on its own *)

MaxCodeChars == 3
MaxCodeInt == 12

CodeChars == {"#", "a", "1"}

\* None, the ints 0..MaxCodeInt and the strings over CodeChars
CodeValues ==
    {None} \cup {N(k) : k \in 0..MaxCodeInt}
        \cup {S(q) : q \in SeqsUpTo(CodeChars, MaxCodeChars)}

InitValid ==
    /\ pc = "start"
    /\ code \in CodeValues
    /\ valid = FALSE
    /\ raised = "none"
    /\ data = <<>>
    /\ NoSheet /\ NoQuality /\ NoDefect

IsValidCode ==
    /\ pc = "start"
    /\ valid' = is_valid_code(code)
    /\ pc' = "checked"
    /\ UNCHANGED <<code, raised, data, sheetVars, qualityVars, defectVars>>

NextValid == IsValidCode

SpecValid == InitValid /\ [][NextValid]_vars

\* C8: is_valid_code returns false exactly when the key cell is None or its
\* stringified value begins with "#", and true for every other value, ints
\* included.
Thm_C8 ==
    pc = "checked" =>
        (valid = FALSE <=>
            (code.t = "None" \/ (Len(Str(code)) > 0 /\ Head(Str(code)) = "#")))

\* an int code of two digits was accepted
Wit_C8 == pc = "checked" /\ code.t = "int" /\ code.n >= 10 /\ valid = TRUE

-----------------------------------------------------------------------------
(* The loaders *)

MaxSheetRows == 3

\* rows as wide as the script's layout.  Column 0 holds no value, an error
\* marker, the header text, a text code or a numeric code.
KeyCells(which) ==
    {None, S(<<"#", "N">>), S(DefaultKeyword(which)), S(<<"a">>), N(7)}

DefectRows ==
    {<<k, S(<<"A">>), c, None, S(<<"y">>)>> :
        k \in KeyCells("pareto"), c \in {S(<<"x">>), S(PIANHAO)}}

QualityRows ==
    {<<k, None, HAO, None, None, q, None, None>> :
        k \in KeyCells("quality"), q \in {HAO, HUAI}}

SheetRows(which) == IF which = "quality" THEN QualityRows ELSE DefectRows

InitLoad ==
    /\ pc = "start"
    /\ script \in Scripts
    /\ sheet \in SeqsUpTo(SheetRows(script), MaxSheetRows)
    /\ header_keyword = DefaultKeyword(script)
    /\ header_row = 0
    /\ raised = "none"
    /\ data = <<>>
    /\ NoCode /\ NoQuality /\ NoDefect

\* load_graph_data(file_path) / load_data(file_path)
Load ==
    /\ pc = "start"
    /\ LET r == load(script, sheet)
       IN  /\ data' = r.ret
           /\ raised' = r.exc
           /\ header_row' = r.header
    /\ pc' = "loaded"
    /\ UNCHANGED <<script, sheet, header_keyword, codeVars, qualityVars,
                   defectVars>>

NextLoad == Load

SpecLoad == InitLoad /\ [][NextLoad]_vars

\* the key cell is None or its stringified value begins with "#"
BadKey(v) == v.t = "None" \/ (Len(Str(v)) > 0 /\ Head(Str(v)) = "#")

\* the key a record was made from: the item code of a defect record, the
\* category of a quality record
RecordKey(which, rec) == IF which = "quality" THEN rec.zhonglei ELSE rec.pianhao

\* the rows below the header row whose key cell is neither None nor an error
\* marker
KeptRows == {i \in (header_row + 1)..Len(sheet) : ~BadKey(sheet[i][1])}

\* C9: in every loader no row whose key cell is None or begins with "#"
\* becomes a record, and every other row below the header row becomes
\* exactly one record.
Cex_C9 ==
    pc = "loaded" =>
        /\ raised = "none"
        /\ \A i \in 1..Len(data) : ~BadKey(RecordKey(script, data[i]))
        /\ Len(data) = Cardinality(KeptRows)

-----------------------------------------------------------------------------
(* group_product_codes on its own *)

MaxCodeLen == 2
MaxCodes == 4

\* category codes: the strings over two characters, and a numeric category
CategoryCodes == {S(q) : q \in SeqsUpTo({"A", "B"}, MaxCodeLen)} \cup {N(7)}

\* the orders in which a set can be iterated
Orders(set) ==
    {q \in SeqsOfLen(set, Cardinality(set)) :
        \A i, j \in 1..Len(q) : i # j => q[i] # q[j]}

InitGroup ==
    /\ pc = "start"
    /\ product_codes \in {c \in SUBSET CategoryCodes : Cardinality(c) <= MaxCodes}
    /\ groups = <<>>
    /\ graph_data = <<>>
    /\ defect_stats = <<>>
    /\ emitted = <<>>
    /\ grouped_data = <<>>
    /\ raised = "none"
    /\ data = <<>>
    /\ NoSheet /\ NoCode /\ NoQuality

\* groups = group_product_codes(all_product_codes)
GroupProductCodes ==
    /\ pc = "start"
    /\ \E order \in Orders(product_codes) :
           LET r == group_product_codes(order)
           IN  /\ groups' = IF r.exc = "none" THEN r.ret ELSE <<>>
               /\ raised' = r.exc
    /\ pc' = "grouped"
    /\ UNCHANGED <<product_codes, graph_data, defect_stats, emitted, data,
                   grouped_data, sheetVars, codeVars, qualityVars>>

NextGroup == GroupProductCodes

SpecGroup == InitGroup /\ [][NextGroup]_vars

\* the (group, position) places of the member lists
Places ==
    UNION {{<<g, i>> : i \in 1..Len(groups[g].val)} : g \in 1..Len(groups)}

MinCodeLen == Min({Len(c.s) : c \in product_codes})

\* C1: for a non-empty set of code strings the groups partition it: the
\* member lists together hold exactly the input codes, no code is in two
\* places, no key names two groups, and every key has the least code
\* length and is the prefix of that length of each member of its group.
Thm_C1 ==
    (pc = "grouped" /\ product_codes # {} /\ \A c \in product_codes : c.t = "str")
        => /\ raised = "none"
           /\ {groups[pl[1]].val[pl[2]] : pl \in Places} = product_codes
           /\ \A p1, p2 \in Places :
                  groups[p1[1]].val[p1[2]] = groups[p2[1]].val[p2[2]] => p1 = p2
           /\ \A g, h \in 1..Len(groups) : groups[g].key = groups[h].key => g = h
           /\ \A g \in 1..Len(groups) :
                  /\ groups[g].key.t = "str"
                  /\ Len(groups[g].key.s) = MinCodeLen
                  /\ Len(groups[g].val) >= 1
                  /\ \A i \in 1..Len(groups[g].val) :
                         SubSeq(groups[g].val[i].s, 1, MinCodeLen) = groups[g].key.s

\* four codes of two lengths fell into two groups
Wit_C1 ==
    /\ pc = "grouped"
    /\ Cardinality(product_codes) = 4
    /\ \E c, d \in product_codes : c.t = "str" /\ d.t = "str" /\ Len(c.s) < Len(d.s)
    /\ Len(groups) = 2
    /\ \E g \in 1..Len(groups) : Len(groups[g].val) = 3

-----------------------------------------------------------------------------
(* analyze_defect_data and the emitted tables on their own *)

MaxRecords == 4

\* the records of one group: the first process column holds no value, three
\* labels (one of them also with surrounding blanks); the second a number or
\* the empty string; the third only blanks
DefectRecords ==
    {[zhonglei |-> S(<<"A">>), pianhao |-> S(<<"p">>), zhege_quexian |-> a,
      nage_quexian |-> b, jiushi_zhege_quexian |-> S(<<" ">>)] :
        a \in {None, S(<<"a">>), S(<<" ", "a", " ">>), S(<<"b">>), S(<<"c">>)},
        b \in {N(12), S(<<>>)}}

InitDefect ==
    /\ pc = "start"
    /\ graph_data \in SeqsUpTo(DefectRecords, MaxRecords)
    /\ defect_stats = <<>>
    /\ emitted = <<>>
    /\ grouped_data = <<>>
    /\ product_codes = {}
    /\ groups = <<>>
    /\ raised = "none"
    /\ data = <<>>
    /\ NoSheet /\ NoCode /\ NoQuality

\* defect_stats = analyze_defect_data(data)
AnalyzeDefectData ==
    /\ pc = "start"
    /\ defect_stats' = analyze_defect_data(graph_data)
    /\ pc' = "analyzed"
    /\ UNCHANGED <<graph_data, emitted, product_codes, groups, raised, data,
                   grouped_data, sheetVars, codeVars, qualityVars>>

\* create_pie_charts_for_group / create_pareto_chart_for_group
CreateChart ==
    /\ pc = "analyzed"
    /\ emitted' = create_chart_rows(defect_stats)
    /\ pc' = "emitted"
    /\ UNCHANGED <<graph_data, defect_stats, product_codes, groups, raised, data,
                   grouped_data, sheetVars, codeVars, qualityVars>>

NextDefect == AnalyzeDefectData \/ CreateChart

SpecDefect == InitDefect /\ [][NextDefect]_vars

\* the records whose value in column is not None and not blank once
\* stringified and trimmed
Labelled(column) ==
    {i \in 1..Len(graph_data) :
        graph_data[i][column] # None /\ Strip(Str(graph_data[i][column])) # <<>>}

\* the records whose value in column, stringified and trimmed, is label
WithLabel(column, label) ==
    {i \in Labelled(column) : Strip(Str(graph_data[i][column])) = label.s}

\* C2: each column's table counts, for each label, the records whose
\* value is not None and equals the label once stringified and trimmed; None
\* and blank values are counted under no label; the counts sum to the number
\* of records with a non-None, non-blank value.
Thm_C2 ==
    pc \in {"analyzed", "emitted"} =>
        /\ Len(defect_stats) = Len(process_columns)
        /\ \A c \in 1..Len(defect_stats) :
               LET column == process_columns[c]
                   table == defect_stats[c].val
               IN  /\ defect_stats[c].key = column
                   /\ \A e \in 1..Len(table) :
                          /\ table[e].key.t = "str"
                          /\ table[e].val = Cardinality(WithLabel(column, table[e].key))
                          /\ table[e].val >= 1
                          /\ \A f \in 1..Len(table) :
                                 table[e].key = table[f].key => e = f
                   /\ \A i \in Labelled(column) :
                          \E e \in 1..Len(table) :
                              table[e].key.s = Strip(Str(graph_data[i][column]))
                   /\ SumVals(table) = Cardinality(Labelled(column))

\* one label was counted twice from two differently written values while a
\* None value of the same column and the blanks of the third column were
\* counted nowhere
Wit_C2 ==
    /\ pc = "analyzed"
    /\ \E i, j, k \in 1..Len(graph_data) :
           /\ graph_data[i].zhege_quexian = S(<<"a">>)
           /\ graph_data[j].zhege_quexian = S(<<" ", "a", " ">>)
           /\ graph_data[k].zhege_quexian = None
    /\ \E e \in 1..Len(defect_stats[1].val) :
           defect_stats[1].val[e] = [key |-> S(<<"a">>), val |-> 2]
    /\ defect_stats[3].val = <<>>

\* the first record whose value in column has the label
FirstSeen(column, label) == Min(WithLabel(column, label))

\* C10: each column's rows are written in descending order of count, labels
\* of equal count in the order of their first occurrence among the records.
Thm_C10 ==
    pc = "emitted" =>
        /\ Len(emitted) = Len(process_columns)
        /\ \A c \in 1..Len(emitted) :
               LET column == process_columns[c]
                   rows == emitted[c].val
               IN  /\ Len(rows) = Len(defect_stats[c].val)
                   /\ \A r \in 1..Len(rows) :
                          \E e \in 1..Len(defect_stats[c].val) :
                              /\ defect_stats[c].val[e].key = rows[r].defect_type
                              /\ defect_stats[c].val[e].val = rows[r].count
                   /\ \A r \in 1..(Len(rows) - 1) :
                          \/ rows[r].count > rows[r + 1].count
                          \/ /\ rows[r].count = rows[r + 1].count
                             /\ FirstSeen(column, rows[r].defect_type)
                                    < FirstSeen(column, rows[r + 1].defect_type)

\* a label seen last leads with count 2; the two labels of count 1 follow in
\* the order they were seen, which is not their alphabetical order
Wit_C10 ==
    /\ pc = "emitted"
    /\ Len(graph_data) = 4
    /\ graph_data[1].zhege_quexian = S(<<"c">>)
    /\ graph_data[2].zhege_quexian = S(<<"b">>)
    /\ Len(emitted[1].val) = 3
    /\ emitted[1].val[1].defect_type = S(<<"a">>)
    /\ emitted[1].val[1].count = 2
    /\ emitted[1].val[2].defect_type = S(<<"c">>)
    /\ emitted[1].val[3].defect_type = S(<<"b">>)

-----------------------------------------------------------------------------
(* quality_ratio on its own *)

MaxData == 4

\* records of category X with every kind of stage-1 value (None, the empty
\* string, a blank, and three labels) and records of category Y
RatioRecords ==
    {[zhonglei |-> S(<<"X">>), gongxu1_pinzhi |-> v, gongxu2_pinzhi |-> HUAI,
      zuizhong_pinzhi |-> HAO] :
        v \in {None, S(<<>>), S(<<" ">>), HAO, HAIXING, HUAI}}
    \cup
    {[zhonglei |-> S(<<"Y">>), gongxu1_pinzhi |-> v, gongxu2_pinzhi |-> HUAI,
      zuizhong_pinzhi |-> HAO] : v \in {None, HAO}}

\* the categories asked for: two that occur and one that never does
RatioCategories == {S(<<"X">>), S(<<"Y">>), S(<<"Z">>)}

RatioColumns == {"gongxu1_pinzhi", "gongxu2_pinzhi"}

\* the counted values of the stage-1 configuration, and a list that holds
\* the empty string
CountedLists == {<<HAO, HAIXING>>, <<HUAI, S(<<>>)>>}

InitRatio ==
    /\ pc = "start"
    /\ data \in SeqsUpTo(RatioRecords, MaxData)
    /\ passes = 0
    /\ call = <<>>
    /\ ratio = <<>>
    /\ process_configs = <<>>
    /\ results = <<>>
    /\ raised = "none"
    /\ NoSheet /\ NoCode /\ NoDefect

\* ratio = quality_ratio(data, category, config["column"], config["values"])
QualityRatio ==
    /\ pc = "start"
    /\ \E category \in RatioCategories, process_column \in RatioColumns,
          values_to_count \in CountedLists :
           LET r == quality_ratio(data, category, process_column, values_to_count)
           IN  /\ call' = [category |-> category,
                           process_column |-> process_column,
                           values_to_count |-> values_to_count]
               /\ ratio' = r.ret
               /\ raised' = r.exc
    /\ pc' = "computed"
    /\ UNCHANGED <<data, passes, process_configs, results, sheetVars, codeVars,
                   defectVars>>

NextRatio == QualityRatio

SpecRatio == InitRatio /\ [][NextRatio]_vars

\* the records of the call's category whose value for the call's field is
\* neither None nor the empty string
Denominator ==
    {i \in 1..Len(data) :
        /\ data[i].zhonglei = call.category
        /\ data[i][call.process_column] # None
        /\ data[i][call.process_column] # S(<<>>)}

\* those of them whose value is one of the counted values
Numerator ==
    {i \in Denominator :
        data[i][call.process_column]
            \in {call.values_to_count[k] : k \in 1..Len(call.values_to_count)}}

\* C3: quality_ratio returns numerator / denominator, the denominator being
\* the number of records of the category whose value for the field is
\* neither None nor empty, the numerator the number of those whose value is
\* a counted one; the ratio lies between 0 and 1.
Thm_C3 ==
    pc = "computed" =>
        /\ raised = "none"
        /\ ratio[2] > 0
        /\ 0 <= ratio[1] /\ ratio[1] <= ratio[2]
        /\ Cardinality(Numerator) <= Cardinality(Denominator)
        /\ Cardinality(Denominator) > 0 =>
               ratio[1] * Cardinality(Denominator) = Cardinality(Numerator) * ratio[2]

\* four records of category X with the values hao, haixing, None and huai,
\* counted values hao and haixing: the ratio is 2/3
Wit_C3 ==
    /\ pc = "computed"
    /\ Len(data) = 4
    /\ \A i \in 1..4 : data[i].zhonglei = S(<<"X">>)
    /\ {data[i].gongxu1_pinzhi : i \in 1..4} = {HAO, HAIXING, None, HUAI}
    /\ call = [category |-> S(<<"X">>), process_column |-> "gongxu1_pinzhi",
               values_to_count |-> <<HAO, HAIXING>>]
    /\ ratio = <<2, 3>>

\* C4: quality_ratio returns exactly 0 and raises nothing when the category
\* has no record with a value for the field.
Thm_C4 ==
    (pc = "computed" /\ Denominator = {}) => (raised = "none" /\ ratio = Zero)

\* the category has records, all of them without a value for the field
Wit_C4 ==
    /\ pc = "computed"
    /\ Denominator = {}
    /\ \E i, j \in 1..Len(data) :
           /\ data[i].zhonglei = call.category
           /\ data[j].zhonglei = call.category
           /\ data[i][call.process_column] = None
           /\ data[j][call.process_column] = S(<<>>)
    /\ ratio = Zero

-----------------------------------------------------------------------------
(* preprocess_data on its own *)

MaxFillData == 3
MaxPasses == 2

\* records with every kind of terminal value (None, the empty string, a
\* blank, two labels) and stage-2 values hao, huai and None
FillRecords ==
    {[zhonglei |-> S(<<"X">>), gongxu1_pinzhi |-> HAO, gongxu2_pinzhi |-> p,
      zuizhong_pinzhi |-> f] :
        p \in {HAO, HUAI, None},
        f \in {None, S(<<>>), S(<<" ">>), HAO, YIBAN}}

InitFill ==
    /\ pc = "start"
    /\ data \in SeqsUpTo(FillRecords, MaxFillData)
    /\ passes = 0
    /\ call = <<>>
    /\ ratio = <<>>
    /\ process_configs = <<>>
    /\ results = <<>>
    /\ raised = "none"
    /\ NoSheet /\ NoCode /\ NoDefect

\* data = preprocess_data(data)
PreprocessData ==
    /\ passes < MaxPasses
    /\ data' = preprocess_data(data)
    /\ passes' = passes + 1
    /\ pc' = "filled"
    /\ UNCHANGED <<call, ratio, process_configs, results, raised, sheetVars,
                   codeVars, defectVars>>

NextFill == PreprocessData

SpecFill == InitFill /\ [][NextFill]_vars

\* C5: a pass of preprocess_data gives every record whose terminal quality
\* is None or empty the value hao if its stage-2 quality is hao and huai
\* otherwise; a pass over the output of an earlier pass changes nothing.
Thm_C5 ==
    [][passes' = passes + 1 =>
          /\ Len(data') = Len(data)
          /\ \A i \in 1..Len(data) :
                 data[i].zuizhong_pinzhi \in {None, S(<<>>)} =>
                     data'[i].zuizhong_pinzhi =
                         IF data[i].gongxu2_pinzhi = HAO THEN HAO ELSE HUAI
          /\ passes >= 1 => data' = data]_vars

\* after two passes, one record was filled with hao and one with huai (no
\* input record has huai as its terminal quality)
Wit_C5 ==
    /\ passes = 2
    /\ \E i, j \in 1..Len(data) :
           /\ data[i].zuizhong_pinzhi = HUAI /\ data[i].gongxu2_pinzhi = None
           /\ data[j].zuizhong_pinzhi = HAO /\ data[j].gongxu2_pinzhi = HAO

-----------------------------------------------------------------------------
(* The scripts from the sheet to their results *)

MaxBodyRows == 3

\* the header rows of the two layouts
DefectHeader == <<S(PIANHAO), S(ZHONGLEI), S(<<"q">>), S(<<"q">>), S(<<"q">>)>>
QualityHeader ==
    <<S(ZHONGLEI), None, S(<<"g">>), None, None, S(<<"g">>), None, S(<<"z">>)>>

\* rows below the header of a defect sheet: a row of no item code, a row
\* with an error marker, and rows of a valid item code whose category is a
\* base code, a variant of it, another code or a number
DefectBody ==
    {<<None, S(<<"A">>), None, None, None>>,
     <<S(<<"#", "N">>), S(<<"A">>), None, None, None>>}
    \cup
    {<<S(<<"p">>), c, d, None, S(<<"y">>)>> :
        c \in {S(<<"A">>), S(<<"A", "B">>), S(<<"B">>), N(7)},
        d \in {None, S(<<"x">>)}}

\* rows below the header of a quality sheet: a row of no category, and rows
\* of two categories with a stage-2 quality and a terminal quality that is
\* missing, empty or given
QualityBody ==
    {<<None, None, HAO, None, None, HAO, None, None>>}
    \cup
    {<<c, None, HAIXING, None, None, p, None, f>> :
        c \in {S(<<"X">>), S(<<"Y">>)},
        p \in {HAO, HUAI},
        f \in {None, S(<<>>), YIBAN}}

\* the sheets: the empty sheet, and a header row with up to MaxBodyRows rows
PipelineSheets(which) ==
    {<<>>} \cup
    {<<IF which = "quality" THEN QualityHeader ELSE DefectHeader>> \o body :
        body \in SeqsUpTo(IF which = "quality" THEN QualityBody ELSE DefectBody,
                          MaxBodyRows)}

\* the configurations tried: the one of __main__, and one that also asks
\* for a column no record has
ConfigLists ==
    {main_process_configs,
     <<[name |-> "gongxu3_zhanbi", column |-> "gongxu3_pinzhi",
        values |-> <<HAO>>],
       main_process_configs[3]>>}

InitPipeline ==
    /\ pc = "start"
    /\ script \in Scripts
    /\ sheet \in PipelineSheets(script)
    /\ header_keyword = DefaultKeyword(script)
    /\ header_row = 0
    /\ raised = "none"
    /\ data = <<>>
    /\ passes = 0
    /\ call = <<>>
    /\ ratio = <<>>
    /\ process_configs \in IF script = "quality" THEN ConfigLists ELSE {<<>>}
    /\ results = <<>>
    /\ NoCode /\ NoDefect

\* analyze_quality_data: data = load_data(quality_file_path)
LoadQualityData ==
    /\ pc = "start" /\ script = "quality"
    /\ LET r == load(script, sheet)
       IN  /\ data' = r.ret
           /\ raised' = r.exc
           /\ header_row' = r.header
           /\ pc' = IF r.exc = "none" THEN "loaded" ELSE "error"
    /\ UNCHANGED <<script, sheet, header_keyword, passes, call, ratio,
                   process_configs, results, codeVars, defectVars>>

\* analyze_quality_data: if not data: return {}
ReturnEmpty ==
    /\ pc = "loaded" /\ script = "quality"
    /\ data = <<>>
    /\ results' = <<>>
    /\ pc' = "done"
    /\ UNCHANGED <<data, raised, passes, call, ratio, process_configs, sheetVars,
                   codeVars, defectVars>>

\* analyze_quality_data: data = preprocess_data(data)
FillData ==
    /\ pc = "loaded" /\ script = "quality"
    /\ data # <<>>
    /\ data' = preprocess_data(data)
    /\ passes' = passes + 1
    /\ pc' = "filled"
    /\ UNCHANGED <<raised, call, ratio, process_configs, results, sheetVars,
                   codeVars, defectVars>>

\* analyze_quality_data: one round of "for category in categories", the set
\* being iterated in any order
AnalyzeCategory ==
    /\ pc \in {"filled", "ratios"} /\ script = "quality"
    /\ \E category \in categories_of(data) \ Keys(results) :
           LET category_result ==
                   category_results(data, category, process_configs, 1, <<>>)
               last == process_configs[Len(process_configs)]
           IN  /\ results' = DictSet(results, category, category_result)
               /\ call' = [category |-> category,
                           process_column |-> last.column,
                           values_to_count |-> last.values]
               /\ ratio' = quality_ratio(data, category, last.column,
                                          last.values).ret
               /\ pc' = IF categories_of(data) \ Keys(results) = {category}
                         THEN "done" ELSE "ratios"
    /\ UNCHANGED <<data, raised, passes, process_configs, sheetVars, codeVars,
                   defectVars>>

\* __main__ of a defect script: graph_data = load_graph_data(file_path)
LoadGraphData ==
    /\ pc = "start" /\ script # "quality"
    /\ LET r == load(script, sheet)
       IN  /\ graph_data' = r.ret
           /\ raised' = r.exc
           /\ header_row' = r.header
           /\ pc' = IF r.exc = "none" THEN "loaded" ELSE "error"
    /\ UNCHANGED <<script, sheet, header_keyword, data, product_codes, groups,
                   defect_stats, emitted, grouped_data, codeVars, qualityVars>>

\* __main__: all_product_codes = set(...); groups = group_product_codes(...)
\* an exception ends the try block
GroupAllCodes ==
    /\ pc = "loaded" /\ script # "quality"
    /\ product_codes' = all_product_codes(graph_data)
    /\ \E order \in Orders(all_product_codes(graph_data)) :
           LET r == group_product_codes(order)
           IN  /\ groups' = IF r.exc = "none" THEN r.ret ELSE <<>>
               /\ raised' = r.exc
               /\ pc' = IF r.exc = "none" THEN "grouped" ELSE "error"
    /\ UNCHANGED <<graph_data, defect_stats, emitted, grouped_data, data,
                   sheetVars, codeVars, qualityVars>>

\* __main__: the loop that fills grouped_data
OrganizeGroups ==
    /\ pc = "grouped" /\ script # "quality"
    /\ grouped_data' = build_grouped_data(groups, graph_data, 1, <<>>)
    /\ pc' = "organized"
    /\ UNCHANGED <<product_codes, groups, graph_data, defect_stats, emitted,
                   raised, data, sheetVars, codeVars, qualityVars>>

\* save_grouped_results_to_excel: every group is analysed and charted in
\* turn; defect_stats and emitted are those of the last group
SaveGroupedResults ==
    /\ pc = "organized" /\ script # "quality"
    /\ IF grouped_data = <<>>
       THEN UNCHANGED <<defect_stats, emitted>>
       ELSE LET stats == analyze_defect_data(grouped_data[Len(grouped_data)].val)
            IN  /\ defect_stats' = stats
                /\ emitted' = create_chart_rows(stats)
    /\ pc' = "done"
    /\ UNCHANGED <<product_codes, groups, graph_data, grouped_data, raised,
                   data, sheetVars, codeVars, qualityVars>>

NextPipeline ==
    \/ LoadQualityData
    \/ ReturnEmpty
    \/ FillData
    \/ AnalyzeCategory
    \/ LoadGraphData
    \/ GroupAllCodes
    \/ OrganizeGroups
    \/ SaveGroupedResults

SpecPipeline == InitPipeline /\ [][NextPipeline]_vars

\* C11: with no valid record left, analyze_quality_data returns an empty
\* mapping, group_product_codes returns an empty grouping for the empty code
\* set and grouped_data is empty; nothing is raised.
Thm_C11 ==
    /\ (script = "quality" /\ pc # "start" /\ data = <<>>)
           => (raised = "none" /\ results = <<>> /\ pc \in {"loaded", "done"})
    /\ (script # "quality" /\ pc \notin {"start", "loaded"} /\ graph_data = <<>>)
           => /\ raised = "none"
              /\ product_codes = {}
              /\ groups = <<>>
              /\ grouped_data = <<>>
              /\ pc \in {"grouped", "organized", "done"}

\* a defect sheet of a header and three rows, none of them valid, went
\* through grouping to the end with nothing raised
Wit_C11 ==
    /\ script = "defect_graph"
    /\ pc = "done"
    /\ Len(sheet) = 4
    /\ graph_data = <<>>
    /\ groups = <<>>
    /\ grouped_data = <<>>

\* the column is a field of no record
NoRecordHas(items, column) ==
    \A i \in 1..Len(items) : column \notin DOMAIN items[i]

\* C12: when process_configs asks for a column that is a field of no
\* record of the loaded data, analyze_quality_data ends in an error and no
\* ratio is returned for that configuration.
Cex_C12 ==
    \A c \in 1..Len(process_configs) :
        (/\ script = "quality"
         /\ pc \in {"ratios", "done"}
         /\ data # <<>>
         /\ NoRecordHas(data, process_configs[c].column))
        => /\ raised # "none"
           /\ \A r \in 1..Len(results) :
                  process_configs[c].name \notin Keys(results[r].val)

\* the terminal quality is missing: None or the empty string
Unfilled(item) == item.zuizhong_pinzhi \in {None, S(<<>>)}

\* C13: after the load, records change only in the null-fill step, which
\* changes nothing but the terminal quality of the records where it was None
\* or empty and keeps the number and order of the records; the ratio,
\* grouping, organising and analysis steps leave the records and their
\* input collections as they were.
Thm_C13 ==
    [][pc # "start" =>
        /\ Len(data') = Len(data)
        /\ \A i \in 1..Len(data) :
              /\ data'[i].zhonglei = data[i].zhonglei
              /\ data'[i].gongxu1_pinzhi = data[i].gongxu1_pinzhi
              /\ data'[i].gongxu2_pinzhi = data[i].gongxu2_pinzhi
              /\ ~Unfilled(data[i])
                    => data'[i].zuizhong_pinzhi = data[i].zuizhong_pinzhi
        /\ pc # "loaded" => data' = data
        /\ graph_data' = graph_data
        /\ pc # "loaded" => product_codes' = product_codes
        /\ pc \notin {"loaded", "grouped"}
              => (groups' = groups /\ grouped_data' = grouped_data)
    ]_vars

\* the analysis of a sheet of three records ended: the first record had a
\* terminal quality and kept it, the second had none and was filled
Wit_C13 ==
    /\ script = "quality"
    /\ pc = "done"
    /\ Len(sheet) = 4 /\ Len(data) = 3
    /\ sheet[2][8] = YIBAN /\ data[1].zuizhong_pinzhi = YIBAN
    /\ sheet[3][8] = None /\ data[2].zuizhong_pinzhi = HUAI
    /\ sheet[3][6] = HUAI
    /\ Len(results) = 2

RECURSIVE summary_counts(_)
\* save_grouped_results_to_excel: the sum of column B of the summary sheet,
\* len(data) of every group
summary_counts(dict) ==
    IF dict = <<>> THEN 0 ELSE Len(Head(dict).val) + summary_counts(Tail(dict))

\* C14: in the defect scripts, when every loaded category is a string, the
\* record lists of the groups partition the loaded records: no key names two
\* groups, every group holds, in loading order, exactly the records whose
\* category begins with its key taken at the least category length, every
\* record is in exactly one list, and the counts of the summary add up to
\* the number of loaded records.
Thm_C14 ==
    (/\ script # "quality"
     /\ pc \in {"organized", "done"}
     /\ \A i \in 1..Len(graph_data) : graph_data[i].zhonglei.t = "str")
    => /\ raised = "none"
       /\ Len(grouped_data) = Len(groups)
       /\ \A g, h \in 1..Len(grouped_data) :
              grouped_data[g].key = grouped_data[h].key => g = h
       /\ \A g \in 1..Len(grouped_data) :
              grouped_data[g].val =
                  SelectSeq(graph_data,
                      LAMBDA item : S(Prefix(item.zhonglei.s, MinCodeLen))
                                        = grouped_data[g].key)
       /\ \A i \in 1..Len(graph_data) :
              Cardinality({g \in 1..Len(grouped_data) :
                  \E k \in 1..Len(grouped_data[g].val) :
                      grouped_data[g].val[k] = graph_data[i]}) = 1
       /\ summary_counts(grouped_data) = Len(graph_data)

\* three records of the categories A, AB and B were organised into two
\* groups, the first holding the records of A and of AB
Wit_C14 ==
    /\ script # "quality"
    /\ pc = "done"
    /\ Len(graph_data) = 3
    /\ {graph_data[i].zhonglei : i \in 1..3}
           = {S(<<"A">>), S(<<"A", "B">>), S(<<"B">>)}
    /\ Len(grouped_data) = 2
    /\ \E g \in 1..2 :
           /\ grouped_data[g].key = S(<<"A">>)
           /\ Len(grouped_data[g].val) = 2

\* the records of a category
RecordsOf(category) == {i \in 1..Len(data) : data[i].zhonglei = category}

\* the configurations that read the terminal quality
TerminalConfigs ==
    {c \in 1..Len(process_configs) :
        process_configs[c].column = "zuizhong_pinzhi"}

\* C15: in analyze_quality_data every ratio is computed after the one
\* null-fill pass, so while ratios exist no record has a None or empty
\* terminal quality; for every category with a result the denominator of
\* the terminal-quality ratio is the number of all records of the category;
\* and at the end every category of the data has exactly one entry, with
\* exactly one ratio per configured process.
Thm_C15 ==
    (script = "quality" /\ results # <<>>)
    => /\ pc \in {"ratios", "done"}
       /\ passes = 1
       /\ \A i \in 1..Len(data) : ~Unfilled(data[i])
       /\ \A r \in 1..Len(results) : \A c \in TerminalConfigs :
              LET category == results[r].key
                  config == process_configs[c]
                  counts == ratio_loop(data, category, config.column,
                                config.values, 1, 0, 0)
                  entry == results[r].val[IndexOfKey(results[r].val, config.name)]
              IN  /\ RecordsOf(category) # {}
                  /\ counts[2] = Cardinality(RecordsOf(category))
                  /\ entry.val = Quotient(
                         Cardinality({i \in RecordsOf(category) :
                             InList(data[i].zuizhong_pinzhi, config.values)}),
                         Cardinality(RecordsOf(category)))
       /\ \A r, q \in 1..Len(results) : results[r].key = results[q].key => r = q
       /\ \A r \in 1..Len(results) :
              /\ Len(results[r].val) = Len(process_configs)
              /\ \A c \in 1..Len(process_configs) :
                     results[r].val[c].key = process_configs[c].name
       /\ pc = "done" => Keys(results) = {data[i].zhonglei : i \in 1..Len(data)}

\* the analysis ended for two categories; a record of X came without a
\* terminal quality, was filled with "huai" and is counted in the
\* denominator of the terminal-quality ratio of X, which is 1/2
Wit_C15 ==
    /\ script = "quality"
    /\ pc = "done"
    /\ passes = 1
    /\ Len(sheet) = 4 /\ Len(data) = 3
    /\ sheet[2][1] = S(<<"X">>) /\ sheet[2][8] = None /\ sheet[2][6] = HUAI
    /\ sheet[3][1] = S(<<"X">>) /\ sheet[3][8] = YIBAN
    /\ sheet[4][1] = S(<<"Y">>)
    /\ Len(results) = 2
    /\ \E r \in 1..2 :
           /\ results[r].key = S(<<"X">>)
           /\ results[r].val[Len(process_configs)].val = <<1, 2>>

====
